---- MODULE Spec2Model ----
(***************************************************************************)
(* A model of the slitu crate: the text-file comparator                    *)
(* (compare_text_files, src/src/fs.rs) and the UTC Timestamp               *)
(* (src/src/time/timestamp.rs).                                            *)
(*                                                                         *)
(* A file is modelled by what File::open and BufReader::lines() show of    *)
(* it: it either cannot be opened, or it yields a finite sequence of       *)
(* items, each a decoded line (its text, terminator stripped) or a         *)
(* read/decode error.  A text is a sequence of one-character strings.      *)
(***************************************************************************)
EXTENDS Integers, Sequences, FiniteSets, TLC

VARIABLES
    path_1, path_2,     \* the two path arguments
    file_1, file_2,     \* what the file system holds at path_1 and at path_2
    filters,            \* the filters argument: None, or Some(list of substrings)
    pc,                 \* position of the call inside compare_text_files
    next_1, next_2,     \* items pulled so far from r1.lines() and from lines_2
    line_number,        \* the local line_number
    l1, l2,             \* the locals l1 and l2 of the current iteration
    result,             \* the value returned (kind "none" while running)
    clock,              \* the instant Utc::now() returns
    ts,                 \* the Timestamps held, by slot
    json,               \* serde_json::to_string of each slot's Timestamp
    loaded              \* what Timestamp::from_reader returned for each slot

cmpVars == <<path_1, path_2, file_1, file_2, filters, pc, next_1, next_2,
             line_number, l1, l2, result>>
tsVars == <<clock, ts, json, loaded>>
vars == <<cmpVars, tsVars>>

----------------------------------------------------------------------------
(* Bounds and input sets *)

\* Largest number of line items of a file.
MaxLines == 2

\* The decoded lines the files are built from: "a", "c", "ab" and "cb".
Texts == { <<"a">>, <<"c">>, <<"a", "b">>, <<"c", "b">> }

\* An item of a Lines iterator: Ok(text) or Err(_).
OkLine(t) == [ok |-> TRUE, text |-> t]
ErrLine == [ok |-> FALSE, text |-> <<>>]
Items == { OkLine(t) : t \in Texts } \cup { ErrLine }

SeqsUpTo(S, n) == UNION { [1..k -> S] : k \in 0..n }

\* A file that cannot be opened, and the files that can.
MissingFile == [exists |-> FALSE, items |-> <<>>]
Files == { [exists |-> TRUE, items |-> s] : s \in SeqsUpTo(Items, MaxLines) }
             \cup { MissingFile }

\* Two paths; the first is written with a backslash separator.
Paths == { <<"t", "\\", "x">>, <<"t", "/", "y">> }

\* The filters arguments tried: None, Some(&[]), Some(&["b"]), Some(&["ab"]),
\* Some(&["c", "b"]) and Some(&[""]).
NoFilters == [some |-> FALSE, list |-> <<>>]
SomeFilters(fs) == [some |-> TRUE, list |-> fs]
FilterArgs == { NoFilters, SomeFilters(<<>>), SomeFilters(<< <<"b">> >>),
                SomeFilters(<< <<"a", "b">> >>),
                SomeFilters(<< <<"c">>, <<"b">> >>),
                SomeFilters(<< <<>> >>) }

----------------------------------------------------------------------------
(* Helpers of compare_text_files *)

\* Path::to_slash_fmt: every backslash of the path's text becomes a slash.
to_slash_fmt(p) == [i \in 1..Len(p) |-> IF p[i] = "\\" THEN "/" ELSE p[i]]

\* str::contains(pattern): pattern occurs in line as a contiguous substring
\* (the empty pattern occurs in every line).
Contains(line, pattern) ==
    \E i \in 0..(Len(line) - Len(pattern)) :
        SubSeq(line, i + 1, i + Len(pattern)) = pattern

\* Filtered with the test of l2 left out.
FilteredFirstOnly(fl, a, b) ==
    /\ fl.some
    /\ \E k \in 1..Len(fl.list) : Contains(a, fl.list[k])

\* The filter loop of one pair: some filter occurs in l1 or in l2.
Filtered(fl, a, b) ==
    /\ fl.some
    /\ \E k \in 1..Len(fl.list) :
          Contains(a, fl.list[k]) \/ Contains(b, fl.list[k])

\* LinesDiffer with the test inverted.
LinesDifferInverted(a, b) == a = b

\* l1 != l2
LinesDiffer(a, b) == a # b

\* Iterator::next() on a Lines iterator that has yielded pos items is Some(_).
HasNext(file, pos) == pos < Len(file.items)

\* The values compare_text_files returns.
NoResult == [kind |-> "none", path |-> <<>>, count |-> 0, line |-> 0,
             p1 |-> <<>>, t1 |-> <<>>, p2 |-> <<>>, t2 |-> <<>>]
OkResult == [NoResult EXCEPT !.kind = "Ok"]
\* "Error '<err>' opening '<path>'."
OpenError(p) == [NoResult EXCEPT !.kind = "Open", !.path = to_slash_fmt(p)]
\* "Error '<err>' reading line from '<path>'."
ReadError(p) == [NoResult EXCEPT !.kind = "Read", !.path = to_slash_fmt(p)]
\* "'<path>' is shorter and contains <count> lines."
ShorterError(p, n) ==
    [NoResult EXCEPT !.kind = "Shorter", !.path = to_slash_fmt(p), !.count = n]
\* MismatchError with the two texts exchanged.
MismatchErrorSwapped(n, pa, a, pb, b) ==
    [NoResult EXCEPT !.kind = "Mismatch", !.line = n,
                     !.p1 = to_slash_fmt(pa), !.t1 = b,
                     !.p2 = to_slash_fmt(pb), !.t2 = a]

\* "Mismatch at line <line>:\n\t<p1>: '<t1>'\n\t<p2>: '<t2>'"
MismatchError(n, pa, a, pb, b) ==
    [NoResult EXCEPT !.kind = "Mismatch", !.line = n,
                     !.p1 = to_slash_fmt(pa), !.t1 = a,
                     !.p2 = to_slash_fmt(pb), !.t2 = b]

\* File2Exhausted reporting line_number itself.
File2ExhaustedOffByOne(p, n) == ShorterError(p, n)

\* The error made when lines_2.next() is None inside the loop: file 2 ran out
\* at the pair numbered n, so it holds n - 1 lines.
File2Exhausted(p, n) == ShorterError(p, n - 1)

\* File1Exhausted reporting one line less.
File1ExhaustedOffByOne(p, n) == ShorterError(p, n - 1)

\* The error made when lines_2.next() is Some(_) after the loop: file 1 ran
\* out after n lines.
File1Exhausted(p, n) == ShorterError(p, n)

----------------------------------------------------------------------------
(* Timestamp: the data *)

\* The instants used: a DateTime<Utc> of the day 2026-02-24, as the second of
\* the day and the nanosecond of the second.
DaySecs == {0, 59, 3661}
SubSecs == {0, 1, 1000, 120000000, 999999999}
Instants == [secs : DaySecs, nanos : SubSecs]

\* Timestamp { time }, and the empty slot.
MakeTs(t) == [set |-> TRUE, time |-> t]
NoTs == [set |-> FALSE, time |-> [secs |-> 0, nanos |-> 0]]
Timestamps == { MakeTs(t) : t \in Instants }

\* No JSON text taken yet, and no from_reader result yet.
NoText == <<>>
NotLoaded == [state |-> "none", from |-> NoText, value |-> NoTs]

\* No Timestamp operation is in progress (the comparator runs alone).
TsIdle ==
    /\ clock = [secs |-> 0, nanos |-> 0]
    /\ ts = [s \in 1..2 |-> NoTs]
    /\ json = [s \in 1..2 |-> NoText]
    /\ loaded = [s \in 1..2 |-> NotLoaded]

----------------------------------------------------------------------------
(* compare_text_files(p1, p2, filters) *)

\* The call's inputs: any two paths, any files behind them (one file when the
\* two paths are the same), any of the filters arguments.
Init ==
    /\ path_1 \in Paths
    /\ path_2 \in Paths
    /\ file_1 \in Files
    /\ file_2 \in Files
    /\ path_1 = path_2 => file_1 = file_2
    /\ filters \in FilterArgs
    /\ pc = "open_1"
    /\ next_1 = 0
    /\ next_2 = 0
    /\ line_number = 0
    /\ l1 = <<>>
    /\ l2 = <<>>
    /\ result = NoResult
    /\ TsIdle

Inputs == <<path_1, path_2, file_1, file_2, filters>>

Return(r) ==
    /\ result' = r
    /\ pc' = "done"

\* let f1 = File::open(path_1).map_err(..)?;
Open1 ==
    /\ pc = "open_1"
    /\ IF file_1.exists
         THEN pc' = "open_2" /\ UNCHANGED result
         ELSE Return(OpenError(path_1))
    /\ UNCHANGED <<Inputs, next_1, next_2, line_number, l1, l2, tsVars>>

\* Open2 with the error naming path_1.
Open2NamesFirst ==
    /\ pc = "open_2"
    /\ IF file_2.exists
         THEN pc' = "next_1" /\ UNCHANGED result
         ELSE Return(OpenError(path_1))
    /\ UNCHANGED <<Inputs, next_1, next_2, line_number, l1, l2, tsVars>>

\* let f2 = File::open(path_2).map_err(..)?;  then line_number = 0 and the
\* two Lines iterators are made.
Open2 ==
    /\ pc = "open_2"
    /\ IF file_2.exists
         THEN pc' = "next_1" /\ UNCHANGED result
         ELSE Return(OpenError(path_2))
    /\ UNCHANGED <<Inputs, next_1, next_2, line_number, l1, l2, tsVars>>

\* Read1 with lines_2 tested for exhaustion before l1 is decoded.
Read1ChecksFile2First ==
    /\ pc = "next_1"
    /\ IF ~HasNext(file_1, next_1)
         THEN /\ pc' = "tail"
              /\ UNCHANGED <<next_1, line_number, l1, result>>
         ELSE /\ next_1' = next_1 + 1
              /\ line_number' = line_number + 1
              /\ IF ~HasNext(file_2, next_2)
                   THEN /\ Return(File2Exhausted(path_2, line_number + 1))
                        /\ UNCHANGED l1
                   ELSE IF file_1.items[next_1 + 1].ok
                          THEN /\ l1' = file_1.items[next_1 + 1].text
                               /\ pc' = "next_2"
                               /\ UNCHANGED result
                          ELSE /\ Return(ReadError(path_1))
                               /\ UNCHANGED l1
    /\ UNCHANGED <<Inputs, next_2, l2, tsVars>>

\* 'next_line: for l1 in r1.lines() { line_number += 1; let l1 = l1.map_err(..)?;
Read1 ==
    /\ pc = "next_1"
    /\ IF ~HasNext(file_1, next_1)
         THEN /\ pc' = "tail"
              /\ UNCHANGED <<next_1, line_number, l1, result>>
         ELSE /\ next_1' = next_1 + 1
              /\ line_number' = line_number + 1
              /\ IF file_1.items[next_1 + 1].ok
                   THEN /\ l1' = file_1.items[next_1 + 1].text
                        /\ pc' = "next_2"
                        /\ UNCHANGED result
                   ELSE /\ Return(ReadError(path_1))
                        /\ UNCHANGED l1
    /\ UNCHANGED <<Inputs, next_2, l2, tsVars>>

\* let l2 = lines_2.next().ok_or_else(..)?.map_err(..)?;
Read2 ==
    /\ pc = "next_2"
    /\ IF ~HasNext(file_2, next_2)
         THEN /\ Return(File2Exhausted(path_2, line_number))
              /\ UNCHANGED <<next_2, l2>>
         ELSE /\ next_2' = next_2 + 1
              /\ IF file_2.items[next_2 + 1].ok
                   THEN /\ l2' = file_2.items[next_2 + 1].text
                        /\ pc' = "compare"
                        /\ UNCHANGED result
                   ELSE /\ Return(ReadError(path_2))
                        /\ UNCHANGED l2
    /\ UNCHANGED <<Inputs, next_1, line_number, l1, tsVars>>

\* The filter loop (continue 'next_line) and then if l1 != l2 { return Err(..) }.
Compare ==
    /\ pc = "compare"
    /\ IF Filtered(filters, l1, l2)
         THEN pc' = "next_1" /\ UNCHANGED result
         ELSE IF LinesDiffer(l1, l2)
                THEN Return(MismatchError(line_number, path_1, l1, path_2, l2))
                ELSE pc' = "next_1" /\ UNCHANGED result
    /\ UNCHANGED <<Inputs, next_1, next_2, line_number, l1, l2, tsVars>>

\* let l2 = lines_2.next(); if l2.is_some() { return Err(..) }  Ok(())
AfterLoop ==
    /\ pc = "tail"
    /\ IF HasNext(file_2, next_2)
         THEN /\ next_2' = next_2 + 1
              /\ Return(File1Exhausted(path_1, line_number))
         ELSE /\ Return(OkResult)
              /\ UNCHANGED next_2
    /\ UNCHANGED <<Inputs, next_1, line_number, l1, l2, tsVars>>

Next == Open1 \/ Open2 \/ Read1 \/ Read2 \/ Compare \/ AfterLoop

Spec == Init /\ [][Next]_vars

----------------------------------------------------------------------------
(* Timestamp: ordering *)

\* Ord for DateTime<Utc>: -1, 0 or 1 as x is before, at or after y.
TimeCmp(x, y) ==
    IF x.secs < y.secs THEN -1
    ELSE IF x.secs > y.secs THEN 1
    ELSE IF x.nanos < y.nanos THEN -1
    ELSE IF x.nanos > y.nanos THEN 1
    ELSE 0

\* derive(PartialEq, Eq): the single field is compared.
TsEq(a, b) == a.time = b.time

\* derive(PartialOrd, Ord): the single field is compared.
TsCmp(a, b) == TimeCmp(a.time, b.time)

\* is_current with > for >=.
is_current_strict(self, other) == TimeCmp(self.time, other.time) > 0

\* Timestamp::is_current: self.time >= other.time
is_current(self, other) == TimeCmp(self.time, other.time) >= 0

----------------------------------------------------------------------------
(* Timestamp: the JSON text, {"time":"2026-02-24T12:00:00.123Z"} *)

DigitChars == <<"0", "1", "2", "3", "4", "5", "6", "7", "8", "9">>
IsDigit(c) == \E d \in 0..9 : DigitChars[d + 1] = c
DigitVal(c) == CHOOSE d \in 0..9 : DigitChars[d + 1] = c

RECURSIVE Pow10(_)
Pow10(k) == IF k = 0 THEN 1 ELSE 10 * Pow10(k - 1)

\* n written with exactly w digits.
Pad(n, w) == [i \in 1..w |-> DigitChars[((n \div Pow10(w - i)) % 10) + 1]]

\* The number a sequence of digits denotes.
RECURSIVE NumVal(_)
NumVal(ds) ==
    IF ds = <<>> THEN 0
    ELSE 10 * NumVal(SubSeq(ds, 1, Len(ds) - 1)) + DigitVal(ds[Len(ds)])

AllDigits(ds) == \A i \in 1..Len(ds) : IsDigit(ds[i])

JsonOpen == <<"{", "\"", "t", "i", "m", "e", "\"", ":", "\"">>
JsonClose == <<"\"", "}">>
DateText == <<"2", "0", "2", "6", "-", "0", "2", "-", "2", "4", "T">>

\* hh:mm:ss of a second of the day.
ClockText(secs) ==
    Pad(secs \div 3600, 2) \o <<":">> \o Pad((secs \div 60) % 60, 2)
        \o <<":">> \o Pad(secs % 60, 2)

\* The fraction of a second: none, or '.' and 3, 6 or 9 digits, the fewest
\* that lose nothing.
FractionText(nanos) ==
    IF nanos = 0 THEN <<>>
    ELSE IF nanos % 1000000 = 0 THEN <<".">> \o Pad(nanos \div 1000000, 3)
    ELSE IF nanos % 1000 = 0 THEN <<".">> \o Pad(nanos \div 1000, 6)
    ELSE <<".">> \o Pad(nanos, 9)

\* The RFC 3339 text of an instant, with the UTC designator.
Rfc3339Text(t) ==
    DateText \o ClockText(t.secs) \o FractionText(t.nanos) \o <<"Z">>

\* The JSON object holding the Timestamp's time.
JsonText(a) == JsonOpen \o Rfc3339Text(a.time) \o JsonClose

\* The instant an RFC 3339 text of that day denotes, if it is one: the date,
\* hh:mm:ss, an optional '.' with 1 to 9 digits, and 'Z'.
ParseRfc3339(x) ==
    LET n == Len(x)
        d == Len(DateText)
        clk == SubSeq(x, d + 1, d + 8)
        frac == SubSeq(x, d + 10, n - 1)
        hh == NumVal(SubSeq(clk, 1, 2))
        mm == NumVal(SubSeq(clk, 4, 5))
        ss == NumVal(SubSeq(clk, 7, 8))
        shape ==
            /\ n >= d + 9
            /\ SubSeq(x, 1, d) = DateText
            /\ x[n] = "Z"
            /\ AllDigits(SubSeq(clk, 1, 2)) /\ clk[3] = ":"
            /\ AllDigits(SubSeq(clk, 4, 5)) /\ clk[6] = ":"
            /\ AllDigits(SubSeq(clk, 7, 8))
            /\ hh < 24 /\ mm < 60 /\ ss < 60
            /\ \/ n = d + 9
               \/ /\ n >= d + 11 /\ n <= d + 19
                  /\ x[d + 9] = "."
                  /\ AllDigits(frac)
    IN  IF shape
          THEN [ok |-> TRUE,
                time |-> [secs |-> 3600 * hh + 60 * mm + ss,
                          nanos |-> IF n = d + 9 THEN 0
                                    ELSE NumVal(frac) * Pow10(9 - Len(frac))]]
          ELSE [ok |-> FALSE, time |-> NoTs.time]

\* The Timestamp a JSON text denotes, or the error for a text that is not
\* an object with the one field "time" holding such a string.
ParseJson(x) ==
    LET n == Len(x)
        o == Len(JsonOpen)
        c == Len(JsonClose)
        got == ParseRfc3339(SubSeq(x, o + 1, n - c))
    IN  IF /\ n >= o + c
           /\ SubSeq(x, 1, o) = JsonOpen
           /\ SubSeq(x, n - c + 1, n) = JsonClose
           /\ got.ok
          THEN [state |-> "ok", from |-> x, value |-> MakeTs(got.time)]
          ELSE [state |-> "err", from |-> x, value |-> NoTs]

\* Texts handed to from_reader that no Timestamp was serialized to: {} (the
\* field is missing), {"time":0} (wrong type), {"time":"x"} (no timestamp)
\* and a hand-written time with one digit of fraction.
ForeignTexts ==
    { <<"{", "}">>,
      <<"{", "\"", "t", "i", "m", "e", "\"", ":", "0", "}">>,
      JsonOpen \o <<"x">> \o JsonClose,
      JsonOpen \o DateText \o ClockText(59) \o <<".", "5", "Z">> \o JsonClose }

----------------------------------------------------------------------------
(* Timestamp: the operations *)

\* to_json writing whole seconds only, the fraction of the second dropped.
to_json_whole_seconds(a) ==
    JsonOpen \o DateText \o ClockText(a.time.secs) \o <<"Z">> \o JsonClose

\* serde_json::to_string(&Timestamp) through derive(Serialize).
to_json(a) == JsonText(a)

\* Timestamp::from_reader: serde_json::from_reader through derive(Deserialize).
from_reader(x) == ParseJson(x)

\* The comparator is not running.
CmpIdle ==
    /\ path_1 = <<>> /\ path_2 = <<>>
    /\ file_1 = MissingFile /\ file_2 = MissingFile
    /\ filters = NoFilters
    /\ pc = "idle"
    /\ next_1 = 0 /\ next_2 = 0 /\ line_number = 0
    /\ l1 = <<>> /\ l2 = <<>>
    /\ result = NoResult

TsInit ==
    /\ clock \in Instants
    /\ ts = [s \in 1..2 |-> NoTs]
    /\ json = [s \in 1..2 |-> NoText]
    /\ loaded = [s \in 1..2 |-> NotLoaded]
    /\ CmpIdle

\* Time passes: Utc::now() moves to a later instant.
Tick ==
    /\ \E t \in Instants : TimeCmp(t, clock) > 0 /\ clock' = t
    /\ UNCHANGED <<ts, json, loaded, cmpVars>>

\* Timestamp::new(): create(Utc::now()), kept in an empty slot.
New(s) ==
    /\ ~ts[s].set
    /\ ts' = [ts EXCEPT ![s] = MakeTs(clock)]
    /\ UNCHANGED <<clock, json, loaded, cmpVars>>

\* Timestamp::create(time), kept in an empty slot.
Create(s, t) ==
    /\ ~ts[s].set
    /\ ts' = [ts EXCEPT ![s] = MakeTs(t)]
    /\ UNCHANGED <<clock, json, loaded, cmpVars>>

\* serde_json::to_string(&ts[s])
Serialize(s) ==
    /\ ts[s].set
    /\ json[s] = NoText
    /\ json' = [json EXCEPT ![s] = to_json(ts[s])]
    /\ UNCHANGED <<clock, ts, loaded, cmpVars>>

\* Timestamp::from_reader on the text serialized from slot s.
Load(s) ==
    /\ json[s] # NoText
    /\ loaded[s].state = "none"
    /\ loaded' = [loaded EXCEPT ![s] = from_reader(json[s])]
    /\ UNCHANGED <<clock, ts, json, cmpVars>>

\* Timestamp::from_reader on a text from elsewhere.
LoadForeign(s, x) ==
    /\ json[s] # NoText
    /\ loaded[s].state = "none"
    /\ loaded' = [loaded EXCEPT ![s] = from_reader(x)]
    /\ UNCHANGED <<clock, ts, json, cmpVars>>

TsNext ==
    \/ Tick
    \/ \E s \in 1..2 : New(s)
    \/ \E s \in 1..2, t \in Instants : Create(s, t)
    \/ \E s \in 1..2 : Serialize(s)
    \/ \E s \in 1..2 : Load(s)
    \/ \E s \in 1..2, x \in ForeignTexts : LoadForeign(s, x)

TsSpec == TsInit /\ [][TsNext]_vars

----------------------------------------------------------------------------
(* Vocabulary of the comparator's properties *)

Done == pc = "done"
BothOpen == file_1.exists /\ file_2.exists
NumLines(f) == Len(f.items)
LineOf(f, i) == f.items[i].text
Smaller(a, b) == IF a < b THEN a ELSE b

\* A text file: it can be opened and every line of it decodes.
TextFile(f) == f.exists /\ \A i \in 1..NumLines(f) : f.items[i].ok

\* A has fewer lines than B and each line of A is B's line at that position.
ProperPrefix(A, B) ==
    /\ TextFile(A) /\ TextFile(B)
    /\ NumLines(A) < NumLines(B)
    /\ \A i \in 1..NumLines(A) : LineOf(A, i) = LineOf(B, i)

\* Two text files of one length that differ somewhere.
SameLengthDiffer(A, B) ==
    /\ TextFile(A) /\ TextFile(B)
    /\ NumLines(A) = NumLines(B)
    /\ \E k \in 1..NumLines(A) : LineOf(A, k) # LineOf(B, k)

\* The smallest position at which the lines of A and B differ.
FirstDifference(A, B) ==
    CHOOSE k \in 1..NumLines(A) :
        /\ LineOf(A, k) # LineOf(B, k)
        /\ \A j \in 1..(k - 1) : LineOf(A, j) = LineOf(B, j)

\* Text t contains one of the substrings of the filters argument fa.
HasFilterText(fa, t) ==
    fa.some /\ \E k \in 1..Len(fa.list) : Contains(t, fa.list[k])

\* The pair at position i is masked by fa: either line contains a filter.
Masked(fa, A, B, i) ==
    HasFilterText(fa, LineOf(A, i)) \/ HasFilterText(fa, LineOf(B, i))

\* Two text files of one length whose every differing pair is masked by fa.
DifferOnlyWhereMasked(fa, A, B) ==
    /\ TextFile(A) /\ TextFile(B)
    /\ NumLines(A) = NumLines(B)
    /\ \A i \in 1..NumLines(A) :
          LineOf(A, i) # LineOf(B, i) => Masked(fa, A, B, i)

\* Position i passes: both files have a decodable line there and the two
\* lines are equal or masked by the call's filters.
Passes(i) ==
    /\ i <= NumLines(file_1) /\ i <= NumLines(file_2)
    /\ file_1.items[i].ok /\ file_2.items[i].ok
    /\ \/ Masked(filters, file_1, file_2, i)
       \/ LineOf(file_1, i) = LineOf(file_2, i)

ReportsOk == result.kind = "Ok"
ReportsOpen(p) == result.kind = "Open" /\ result.path = to_slash_fmt(p)
ReportsRead(p) == result.kind = "Read" /\ result.path = to_slash_fmt(p)
ReportsShorter(p, n) ==
    result.kind = "Shorter" /\ result.path = to_slash_fmt(p) /\ result.count = n
ReportsMismatch(k) ==
    /\ result.kind = "Mismatch" /\ result.line = k
    /\ result.p1 = to_slash_fmt(path_1) /\ result.t1 = LineOf(file_1, k)
    /\ result.p2 = to_slash_fmt(path_2) /\ result.t2 = LineOf(file_2, k)
NothingRead == next_1 = 0 /\ next_2 = 0

----------------------------------------------------------------------------
(* Properties of compare_text_files *)

\* C1: if text file A has strictly fewer lines than text file B and every
\* line of A equals B's line at the same position, the call fails with
\* "'<A>' is shorter and contains N lines." where N is A's number of lines,
\* whether A is the first argument or the second.
C1_ShorterFileNamed ==
    Done =>
      /\ ProperPrefix(file_1, file_2)
            => ReportsShorter(path_1, NumLines(file_1))
      /\ ProperPrefix(file_2, file_1)
            => ReportsShorter(path_2, NumLines(file_2))

\* The shorter file is the second argument and holds one line.
C1_Witness ==
    /\ Done
    /\ ProperPrefix(file_2, file_1)
    /\ NumLines(file_2) = 1
    /\ ReportsShorter(path_2, 1)

\* C2: for two text files of the same number of lines and no filters, if K is
\* the smallest position at which their lines differ, the call fails with the
\* mismatch error giving line number K, line K of the first argument under the
\* first path and line K of the second argument under the second path.
C2_FirstMismatchReported ==
    Done /\ ~filters.some /\ SameLengthDiffer(file_1, file_2)
        => ReportsMismatch(FirstDifference(file_1, file_2))

\* The first line is equal and the second differs.
C2_Witness ==
    /\ Done /\ ~filters.some
    /\ SameLengthDiffer(file_1, file_2)
    /\ FirstDifference(file_1, file_2) = 2
    /\ ReportsMismatch(2)

\* C3: comparing a text file with itself (the same path twice), or with a
\* copy of it at another path, returns Ok(()) for every filters argument.
C3_IdenticalFilesOk ==
    Done /\ TextFile(file_1) /\ file_2 = file_1 => ReportsOk

\* A two-line text file compared with itself under a filter list.
C3_Witness ==
    /\ Done
    /\ path_1 = path_2
    /\ TextFile(file_1) /\ NumLines(file_1) = 2
    /\ filters.some /\ filters.list # <<>>
    /\ ReportsOk

\* C4: a pair in which either line contains a filter substring is never
\* reported as a mismatch; two text files of one length that differ only in
\* such pairs compare Ok; and with no filters two files that differ only in
\* pairs some filter list would mask fail with the mismatch at their first
\* differing line.
C4_FilteredPairsSkipped ==
    /\ result.kind = "Mismatch"
          => /\ ~HasFilterText(filters, result.t1)
             /\ ~HasFilterText(filters, result.t2)
    /\ Done /\ DifferOnlyWhereMasked(filters, file_1, file_2) => ReportsOk
    /\ Done /\ ~filters.some /\ SameLengthDiffer(file_1, file_2)
          /\ (\E fa \in FilterArgs :
                 fa.some /\ DifferOnlyWhereMasked(fa, file_1, file_2))
          => ReportsMismatch(FirstDifference(file_1, file_2))

\* Filter "b": both pairs differ, in the first only the second file's line
\* contains the filter, and the files compare Ok.
C4_Witness ==
    /\ Done
    /\ filters = SomeFilters(<< <<"b">> >>)
    /\ SameLengthDiffer(file_1, file_2)
    /\ NumLines(file_1) = 2
    /\ LineOf(file_1, 1) # LineOf(file_2, 1)
    /\ ~HasFilterText(filters, LineOf(file_1, 1))
    /\ LineOf(file_1, 2) # LineOf(file_2, 2)
    /\ ReportsOk

\* C5 as stated: a missing file at either position gives the open error
\* naming that path whatever the state of the other file, and nothing is read.
C5_MissingFileNamedAtEitherPosition ==
    Done =>
      /\ ~file_1.exists => ReportsOpen(path_1) /\ NothingRead
      /\ ~file_2.exists => ReportsOpen(path_2) /\ NothingRead

\* C5 (amended): a missing first file gives the open error naming the first
\* path whatever the state of the second; a missing second file gives the open
\* error naming the second path when the first file can be opened; no line of
\* either file is read in either case.
C5_FirstMissingFileNamed ==
    Done =>
      /\ ~file_1.exists => ReportsOpen(path_1) /\ NothingRead
      /\ file_1.exists /\ ~file_2.exists => ReportsOpen(path_2) /\ NothingRead

\* The first file opens and has lines, the second is missing.
C5_Witness ==
    /\ Done
    /\ file_1.exists /\ NumLines(file_1) >= 1
    /\ ~file_2.exists
    /\ ReportsOpen(path_2) /\ NothingRead

\* C6: whenever an item pulled from either file is a read/decode error, the
\* call fails with the read error naming that file, and that item is the last
\* one pulled (from file 1: before the pair's line of file 2 is pulled).
C6_ReadErrorReported ==
    /\ \A i \in 1..next_1 :
          ~file_1.items[i].ok
             => ReportsRead(path_1) /\ next_1 = i /\ next_2 = i - 1
    /\ \A i \in 1..next_2 :
          ~file_2.items[i].ok
             => ReportsRead(path_2) /\ next_2 = i /\ next_1 = i

\* The outcome the walk has at position i, the first position that does not
\* pass: the causes in the order read error on file 1, file 2 exhausted, read
\* error on file 2, mismatch; past file 1's end, file 1 is shorter or Ok.
ReportsCauseAt(i) ==
    IF i > NumLines(file_1)
      THEN IF i <= NumLines(file_2)
             THEN ReportsShorter(path_1, NumLines(file_1))
             ELSE ReportsOk
      ELSE IF ~file_1.items[i].ok THEN ReportsRead(path_1)
      ELSE IF i > NumLines(file_2) THEN ReportsShorter(path_2, NumLines(file_2))
      ELSE IF ~file_2.items[i].ok THEN ReportsRead(path_2)
      ELSE ReportsMismatch(i)

\* What a call has at most left to do: the lines of file 1 not yet pulled,
\* and the steps left for the current pair.
StepsLeft ==
    4 * (NumLines(file_1) - next_1)
      + (CASE pc = "open_1" -> 6
           [] pc = "open_2" -> 5
           [] pc = "next_2" -> 4
           [] pc = "compare" -> 3
           [] pc = "next_1" -> 2
           [] pc = "tail" -> 1
           [] OTHER -> 0)

\* The state part of C9.
C9_OneOutcome ==
    /\ Done <=> result.kind # "none"
    /\ result.kind \in {"none", "Ok", "Open", "Read", "Shorter", "Mismatch"}
    /\ Done \/ ENABLED Next
    /\ Done /\ ~BothOpen => result.kind = "Open"
    /\ Done /\ BothOpen =>
          \E k \in 1..(NumLines(file_1) + 1) :
              /\ \A j \in 1..(k - 1) : Passes(j)
              /\ ~Passes(k)
              /\ ReportsCauseAt(k)

\* C9: every call ends (each step lessens what is left to do and no state
\* before the end is stuck) with exactly one outcome, present exactly when the
\* call has ended and never changed afterwards; the outcome is that of the
\* first position of the lockstep walk that does not pass, the causes at one
\* position taken in the order read error on file 1, file 2 exhausted, read
\* error on file 2, mismatch; "file 1 is shorter" is reported only when every
\* line of file 1 passed.
C9_FirstCauseWins ==
    /\ []C9_OneOutcome
    /\ [][StepsLeft' < StepsLeft]_vars
    /\ [][result.kind # "none" => result' = result]_vars

\* At position 2 file 1's line is undecodable and file 2 is exhausted: the
\* read error on file 1 is the one reported.
C9_Witness ==
    /\ Done /\ BothOpen
    /\ NumLines(file_1) = 2 /\ NumLines(file_2) = 1
    /\ Passes(1)
    /\ ~file_1.items[2].ok
    /\ ReportsRead(path_1)

\* C10: pairs are consumed in lockstep whether skipped or not (before each
\* pair and after the loop both files have yielded line_number items, and a
\* mismatch is numbered by the lines consumed from each file), and if
\* the files have different numbers of lines and no failure comes first, the
\* call fails with the length error naming the shorter file and its full
\* number of lines, filtered lines included.
C10_FiltersKeepAlignment ==
    /\ pc \in {"next_1", "tail"}
          => next_1 = line_number /\ next_2 = line_number
    /\ result.kind = "Mismatch"
          => result.line = next_1 /\ result.line = next_2
    /\ Done /\ BothOpen /\ NumLines(file_1) # NumLines(file_2)
          /\ (\A j \in 1..Smaller(NumLines(file_1), NumLines(file_2)) : Passes(j))
          /\ (NumLines(file_1) > NumLines(file_2)
                 => file_1.items[NumLines(file_2) + 1].ok)
          => IF NumLines(file_1) < NumLines(file_2)
               THEN ReportsShorter(path_1, NumLines(file_1))
               ELSE ReportsShorter(path_2, NumLines(file_2))

\* Filter "b": the only pair differs and is masked, and file 2's extra line
\* contains the filter; file 1 is reported shorter with its 1 line.
C10_Witness ==
    /\ Done /\ BothOpen
    /\ filters = SomeFilters(<< <<"b">> >>)
    /\ NumLines(file_1) = 1 /\ NumLines(file_2) = 2
    /\ TextFile(file_1) /\ TextFile(file_2)
    /\ LineOf(file_1, 1) # LineOf(file_2, 1)
    /\ HasFilterText(filters, LineOf(file_2, 2))
    /\ ReportsShorter(path_1, 1)

----------------------------------------------------------------------------
(* Properties of Timestamp *)

BothSet == ts[1].set /\ ts[2].set

\* a's instant is at or after b's, read off the two fields.
AtOrAfter(a, b) ==
    \/ a.time.secs > b.time.secs
    \/ a.time.secs = b.time.secs /\ a.time.nanos >= b.time.nanos

\* C7: is_current(a, b) is true iff a's instant is at or after b's; it is
\* reflexive, total and transitive, holds both ways iff a == b, and b > a
\* implies b.is_current(a) and not a.is_current(b).
C7_IsCurrentIsTheOrder ==
    BothSet =>
      LET a == ts[1]
          b == ts[2]
      IN  /\ is_current(a, b) <=> AtOrAfter(a, b)
          /\ is_current(a, a)
          /\ is_current(a, b) \/ is_current(b, a)
          /\ (is_current(a, b) /\ is_current(b, a)) <=> TsEq(a, b)
          /\ TsCmp(b, a) > 0 => is_current(b, a) /\ ~is_current(a, b)
          /\ \A c \in Timestamps :
                is_current(a, b) /\ is_current(b, c) => is_current(a, c)

\* The second Timestamp was taken from the clock, later than the first within
\* the same second.
C7_Witness ==
    /\ BothSet
    /\ ts[2].time = clock
    /\ ts[1].time.secs = ts[2].time.secs
    /\ TsCmp(ts[2], ts[1]) > 0
    /\ is_current(ts[2], ts[1]) /\ ~is_current(ts[1], ts[2])

\* Slot s holds what from_reader made of the text serialized from ts[s].
RoundTripped(s) ==
    /\ json[s] # NoText
    /\ loaded[s].state # "none"
    /\ loaded[s].from = json[s]

\* C8: deserializing the JSON text of a Timestamp succeeds and gives a
\* Timestamp equal to it, and equality, ordering and is_current between two
\* deserialized copies are those between the originals.
C8_JsonRoundTrip ==
    /\ \A s \in 1..2 :
          RoundTripped(s)
             => loaded[s].state = "ok" /\ TsEq(loaded[s].value, ts[s])
    /\ RoundTripped(1) /\ RoundTripped(2) =>
          LET a == ts[1]
              b == ts[2]
              da == loaded[1].value
              db == loaded[2].value
          IN  /\ TsEq(da, db) <=> TsEq(a, b)
              /\ TsCmp(da, db) = TsCmp(a, b)
              /\ is_current(da, db) <=> is_current(a, b)
              /\ is_current(db, da) <=> is_current(b, a)

\* Two Timestamps of the same second, a microsecond and 120 milliseconds
\* into it, both serialized and read back.
C8_Witness ==
    /\ RoundTripped(1) /\ RoundTripped(2)
    /\ ts[1].time.secs = ts[2].time.secs
    /\ ts[1].time.nanos = 1000 /\ ts[2].time.nanos = 120000000
    /\ loaded[1].state = "ok" /\ loaded[2].state = "ok"
    /\ TsCmp(loaded[2].value, loaded[1].value) > 0

====
